---- MODULE Spec2Model ----
(***************************************************************************)
(* puppeteer-extensions: the generic poller pollFor and the Extensions     *)
(* facade's resource tracking (request log, waitForResource).              *)
(*                                                                         *)
(* Time is the value of new Date().getTime(), an integer number of         *)
(* milliseconds.  A macrotask of the event loop (one run of the            *)
(* setInterval callback up to its first pending await, one settlement of   *)
(* a pending check, one page event) is one action.  A check whose promise  *)
(* is already resolved when checkFn returns ("immediate") has its          *)
(* continuation run in the microtasks of the same macrotask, so it is part *)
(* of the tick's action.                                                   *)
(***************************************************************************)
EXTENDS Integers, Sequences, FiniteSets, TLC

VARIABLES now, polls, resourceRequests, page, facade, api

vars == <<now, polls, resourceRequests, page, facade, api>>

(* ----------------------------- bounds ---------------------------------- *)

\* pollFor called directly: interval and timeout range over 0..Max (ms).
MaxInterval == 2
MaxTimeout == 4
\* The clock can always reach MaxTime; past it only up to the next tick.
MaxTime == MaxTimeout + 1
\* The latest moment pollFor is called.
MaxStart == 0

\* One pollFor call per specification here.
OnePoll == {1}

\* The Request Log holds at most MaxLog entries between two resets.
MaxLog == 2
\* waitForResource timeouts: 0 .. MaxTimeoutSteps half-intervals.
MaxTimeoutSteps == 5
\* The page navigates at most MaxNavigations times.
MaxNavigations == 1

\* URLs and resource patterns are strings: sequences of characters.
Urls == {<<"a", "b">>, <<"b", "a">>}
Resources == {<<"a">>, <<"a", "b">>, <<>>}
Statuses == {200, 304, 404}

TimeoutMsgs == {"Timed out", "Time out"}

\* What one checkFn invocation does: the boolean it resolves to, a
\* rejection, or a promise that never settles; and whether its promise is
\* already settled when checkFn returns.
CheckBehaviours ==
    {[result |-> r, immediate |-> FALSE] : r \in {"true", "false", "reject", "never"}}
    \cup {[result |-> "true", immediate |-> TRUE]}

(* ----------------------------- values ---------------------------------- *)

\* A JavaScript value passed to resolve/reject: a bare string, or an error
\* object with a message.
Str(s) == [type |-> "string", text |-> s]
NoValue == [type |-> "undefined", text |-> ""]

\* A pollFor call that has not been made yet.
IdlePoll ==
    [st |-> "idle", val |-> NoValue, kind |-> "none", resource |-> <<>>,
     interval |-> 0, timeout |-> 0, timeoutMsg |-> "",
     startTime |-> 0, timerCreated |-> FALSE, timerActive |-> FALSE,
     nextFire |-> 0, ticks |-> 0, checks |-> <<>>, settledAt |-> 0,
     expired |-> FALSE, unhandled |-> 0,
     \* waitForLoadedWebFontCountToBe: count, the closure variable
     \* hasInjectedWebFontsAllLoadedFunction, and the number of times the
     \* call started installing the probe in the page.
     count |-> 0, hasInjected |-> FALSE, installs |-> 0,
     \* The arguments of a retrieval operation, and (history) the timeout
     \* argument of a wait as given: <<>> when omitted.
     args |-> <<>>, timeoutArg |-> <<>>,
     \* (history) the facade operation the call was made through.
     op |-> "",
     \* History of the call, written by no code of the program:
     \* the log was empty and the page showed document docAtCall when the
     \* call was made; clearedBefore holds the patterns whose first match
     \* was successful in the log that the last reset before the call
     \* cleared (kept only if no request was logged between that reset and
     \* the call, and then only the call's own pattern); a request whose URL contains the
     \* pattern was in the log at the call or was appended since; a reset
     \* happened while the call was pending; the awaited response arrived
     \* while elapsed < timeout and has stayed in the log; resetsInRow
     \* counts, up to 2, the resets since the last request event; steady:
     \* a font wait was called with exactly count successful font requests
     \* in the log and document.fonts.ready resolved, and the log has not
     \* changed since; matchedAtTick: some tick of a font wait found
     \* exactly count successful font requests in the log.
     emptyAtCall |-> FALSE, docAtCall |-> 0, clearedBefore |-> {},
     sawMatch |-> FALSE, resetDuring |-> FALSE, metInTime |-> FALSE,
     resetsInRow |-> 0, steady |-> FALSE, matchedAtTick |-> FALSE]

(* ----------------------------- pollFor --------------------------------- *)

\* setInterval(cb, interval): the host fires cb every interval ms, and
\* treats an interval below 1 as 1.
TimerDelay(interval) == IF interval < 1 THEN 1 ELSE interval

\* Mutant: the callback still checks when the elapsed time equals timeout.
WithinTimeoutInclusive(pr, t) == t - pr.startTime <= pr.timeout

\* new Date().getTime() - startTime < timeout
WithinTimeout(pr, t) == t - pr.startTime < pr.timeout

\* Mutant: the timer handle is never cleared.
clearIntervalLeaks(pr) == pr

\* clearInterval(timer)
clearInterval(pr) == [pr EXCEPT !.timerActive = FALSE]

\* Mutant: the last settlement counts.
resolveOverrides(pr, v, t) ==
    IF pr.st \in {"pending", "rejected"}
    THEN [pr EXCEPT !.st = "resolved", !.val = v, !.settledAt = t]
    ELSE pr

\* resolve(v) of the promise pollFor returns: only the first settlement counts.
resolve(pr, v, t) ==
    IF pr.st = "pending"
    THEN [pr EXCEPT !.st = "resolved", !.val = v, !.settledAt = t]
    ELSE pr

\* reject(v) of the promise pollFor returns.
reject(pr, v, t) ==
    IF pr.st = "pending"
    THEN [pr EXCEPT !.st = "rejected", !.val = v, !.settledAt = t]
    ELSE pr

\* The promise executor: startTime, setInterval.
pollFor(pr, kind, resource, interval, timeout, timeoutMsg, t) ==
    [pr EXCEPT !.st = "pending", !.kind = kind, !.resource = resource,
               !.interval = interval, !.timeout = timeout,
               !.timeoutMsg = timeoutMsg, !.startTime = t,
               !.timerCreated = TRUE, !.timerActive = TRUE,
               !.nextFire = t + TimerDelay(interval)]

\* Mutant: a true check resolves the promise and leaves the timer running.
AfterCheckNoClear(pr, i, t) ==
    LET c == pr.checks[i]
        done == [pr EXCEPT !.checks[i].done = TRUE,
                           !.checks[i].settledTick = pr.ticks]
    IN  CASE c.result = "true" -> resolve(done, Str("Finished polling"), t)
          [] c.result = "reject" -> [done EXCEPT !.unhandled = @ + 1]
          [] OTHER -> done

\* Mutant: the condition on the check's result is inverted.
AfterCheckInverted(pr, i, t) ==
    LET c == pr.checks[i]
        done == [pr EXCEPT !.checks[i].done = TRUE,
                           !.checks[i].settledTick = pr.ticks]
    IN  CASE c.result = "false" ->
                resolve(clearInterval(done), Str("Finished polling"), t)
          [] c.result = "reject" -> [done EXCEPT !.unhandled = @ + 1]
          [] OTHER -> done

\* The callback after `await checkFn()` for invocation i settled at time t.
AfterCheck(pr, i, t) ==
    LET c == pr.checks[i]
        done == [pr EXCEPT !.checks[i].done = TRUE,
                           !.checks[i].settledTick = pr.ticks]
    IN  CASE c.result = "true" ->
                resolve(clearInterval(done), Str("Finished polling"), t)
          [] c.result = "reject" ->
                [done EXCEPT !.unhandled = @ + 1]
          [] OTHER -> done

\* The true branch of the callback: checkFn is invoked; behaviour c.
InvokeCheck(pr, c, t) ==
    LET i == Len(pr.checks) + 1
        started == [pr EXCEPT !.checks = Append(@,
                        [result |-> c.result, immediate |-> c.immediate,
                         done |-> FALSE, settledTick |-> 0])]
    IN  IF c.immediate THEN AfterCheck(started, i, t) ELSE started

\* Mutant: the timeout branch rejects with a fixed message.
OnTimeoutFixedMsg(pr, t) ==
    reject([clearInterval(pr) EXCEPT !.expired = TRUE], Str("Timed out"), t)

\* Mutant: the timeout branch stops the timer and reports nothing.
OnTimeoutNoReject(pr, t) == [clearInterval(pr) EXCEPT !.expired = TRUE]

\* The else branch of the callback: clearInterval, reject(timeoutMsg).
OnTimeout(pr, t) ==
    reject([clearInterval(pr) EXCEPT !.expired = TRUE], Str(pr.timeoutMsg), t)

\* The checks still awaited.
InFlight(pr) == {i \in 1..Len(pr.checks) : ~pr.checks[i].done}

\* Mutant: a tick that finds a check pending is skipped.
TimerCallbackSkipsWhilePending(pr, c, t) ==
    LET fired == [pr EXCEPT !.ticks = @ + 1,
                            !.nextFire = t + TimerDelay(pr.interval)]
    IN  IF WithinTimeout(fired, t)
        THEN IF InFlight(pr) = {} THEN InvokeCheck(fired, c, t) ELSE fired
        ELSE OnTimeout(fired, t)

\* Mutant: the callback invokes checkFn before it looks at the clock.
TimerCallbackChecksFirst(pr, c, t) ==
    LET fired == [pr EXCEPT !.ticks = @ + 1,
                            !.nextFire = t + TimerDelay(pr.interval)]
    IN  IF WithinTimeout(fired, t)
        THEN InvokeCheck(fired, c, t)
        ELSE OnTimeout([fired EXCEPT !.checks = Append(@,
                            [result |-> c.result, immediate |-> c.immediate,
                             done |-> TRUE, settledTick |-> fired.ticks])], t)

\* One firing of the setInterval callback at time t.
TimerCallback(pr, c, t) ==
    LET fired == [pr EXCEPT !.ticks = @ + 1,
                            !.nextFire = t + TimerDelay(pr.interval)]
    IN  IF WithinTimeout(fired, t)
        THEN InvokeCheck(fired, c, t)
        ELSE OnTimeout(fired, t)

(* ------------------------ Extensions facade ---------------------------- *)

\* const DEFAULT_TIMEOUT_MS = 5000
DEFAULT_TIMEOUT_MS == 5000

\* Mutant: a parameter that ignores the argument given for it.
DefaultIgnoresArgument(arg, default) == default

\* An optional argument is <<>> when omitted and <<v>> when given; a
\* parameter with a default value takes the default when it is omitted.
Default(arg, default) == IF arg = <<>> THEN default ELSE arg[1]

\* init(page, timeout = DEFAULT_TIMEOUT_MS): new Extensions(page, timeout).
\* initArg is history: the timeout argument as given.
init(timeout) ==
    [defaultTimeout |-> Default(timeout, DEFAULT_TIMEOUT_MS),
     peerRequests |-> <<>>, initArg |-> timeout]

\* interval: 100 of the pollFor call in waitForResource.
PollInterval == 100
\* 'Timeout waiting for resource match.'
ResourceTimeoutMsg == "Timeout waiting for resource match."

\* The clock step and the timeouts used with the facade.
HalfInterval == PollInterval \div 2
ResourceTimeouts == {k * HalfInterval : k \in 0..MaxTimeoutSteps}

\* A request as the 'request' event delivers it: no response yet. doc is
\* the document of the page that issued it.
NewRequest(url, type, doc) ==
    [url |-> url, resourceType |-> type, response |-> <<>>, doc |-> doc,
     \* (history) the page that issued it: 1, or 2 for a second page.
     page |-> 1]

\* Mutant: any response counts as successful.
isSuccessfulResponseAnyStatus(request) == request.response # <<>>

\* Mutant: 304 Not Modified does not count as successful.
isSuccessfulResponseOnly200(request) == request.response = <<200>>

\* isSuccessfulResponse(request); response is <<>> (null) or <<status>>.
isSuccessfulResponse(request) ==
    IF request.response # <<>>
    THEN request.response[1] = 200 \/ request.response[1] = 304
    ELSE FALSE

\* Mutant: the new request is put in front of the log.
pushFront(requests, request) == <<request>> \o requests

\* this.resourceRequests.push(request)
push(requests, request) == Append(requests, request)

\* Mutant: reset keeps the requests that already have a successful response.
ClearedRequestsKeepsResponded(requests) ==
    SelectSeq(requests, isSuccessfulResponse)

\* Mutant: reset drops the newest request only.
ClearedRequestsPopsLast(requests) ==
    SubSeq(requests, 1, Len(requests) - 1)

\* this.resourceRequests = []
ClearedRequests(requests) == <<>>

\* Mutant: the log is cleared when the page navigates.
OnNavigationClears(requests) == <<>>

\* The facade subscribes to 'request' only: a navigation of the page does
\* nothing to the log.
OnNavigation(requests) == requests

\* Whether resource occurs in url at 0-based position k.
OccursAt(url, resource, k) ==
    /\ k + Len(resource) <= Len(url)
    /\ \A j \in 1..Len(resource) : url[k + j] = resource[j]

\* url.indexOf(resource): the first position of resource in url, or -1.
indexOf(url, resource) ==
    LET at == {k \in 0..Len(url) : OccursAt(url, resource, k)}
    IN  IF at = {} THEN -1 ELSE CHOOSE k \in at : \A m \in at : k <= m

\* requests.find(r => r.url().indexOf(resource) !== -1): the index of the
\* first such request, 0 for undefined.
FindRequest(requests, resource) ==
    LET hits == {i \in 1..Len(requests) : indexOf(requests[i].url, resource) # -1}
    IN  IF hits = {} THEN 0 ELSE CHOOSE i \in hits : \A m \in hits : i <= m

\* Mutant: a pattern that no logged request contains counts as responded.
resourceRequestHasRespondedNoMatchOk(requests, resource) ==
    LET i == FindRequest(requests, resource)
    IN  IF i # 0 THEN isSuccessfulResponse(requests[i]) ELSE TRUE

\* Mutant: any logged request containing the pattern may decide, not only
\* the first.
resourceRequestHasRespondedAnyMatch(requests, resource) ==
    \E i \in 1..Len(requests) :
        /\ indexOf(requests[i].url, resource) # -1
        /\ isSuccessfulResponse(requests[i])

\* resourceRequestHasResponded()
resourceRequestHasResponded(requests, resource) ==
    LET i == FindRequest(requests, resource)
    IN  IF i # 0 THEN isSuccessfulResponse(requests[i]) ELSE FALSE

\* Mutant: the synchronous first check is missing; every call polls.
waitForResourceAlwaysPolls(pr, requests, resource, timeout, t) ==
    pollFor(pr, "resource", resource, PollInterval, timeout,
            ResourceTimeoutMsg, t)

\* Mutant: the polling path ticks every 200 ms.
waitForResourceSlowPoll(pr, requests, resource, timeout, t) ==
    IF resourceRequestHasResponded(requests, resource)
    THEN resolve([pr EXCEPT !.st = "pending", !.kind = "resource",
                            !.resource = resource, !.timeout = timeout,
                            !.startTime = t],
                 NoValue, t)
    ELSE pollFor(pr, "resource", resource, 2 * PollInterval, timeout,
                 ResourceTimeoutMsg, t)

\* waitForResource(resource, timeout) called at time t.
waitForResource(pr, requests, resource, timeout, t) ==
    IF resourceRequestHasResponded(requests, resource)
    THEN resolve([pr EXCEPT !.st = "pending", !.kind = "resource",
                            !.resource = resource, !.timeout = timeout,
                            !.startTime = t],
                 NoValue, t)
    ELSE pollFor(pr, "resource", resource, PollInterval, timeout,
                 ResourceTimeoutMsg, t)

\* Mutant: the check of a wait called on an empty log keeps seeing the log
\* as it was at the call.
checkFnSeesLogAtCall(pr, requests) ==
    IF pr.kind = "resource"
    THEN {[result |-> IF /\ ~pr.emptyAtCall
                         /\ resourceRequestHasResponded(requests, pr.resource)
                      THEN "true" ELSE "false",
           immediate |-> TRUE]}
    ELSE CheckBehaviours

\* What the checkFn of poll pr does when invoked now.
checkFn(pr, requests) ==
    IF pr.kind = "resource"
    THEN {[result |-> IF resourceRequestHasResponded(requests, pr.resource)
                      THEN "true" ELSE "false",
           immediate |-> TRUE]}
    ELSE CheckBehaviours

(* ----------------------------- history --------------------------------- *)

\* resource is a substring of url.
Contains(url, resource) ==
    \E k \in 1..Len(url) + 1 :
        /\ k + Len(resource) - 1 <= Len(url)
        /\ SubSeq(url, k, k + Len(resource) - 1) = resource

\* The first logged request whose URL contains resource has a response
\* with one of the given statuses.
FirstMatchHas(requests, resource, statuses) ==
    \E i \in 1..Len(requests) :
        /\ Contains(requests[i].url, resource)
        /\ requests[i].response \in {<<s>> : s \in statuses}
        /\ \A j \in 1..i - 1 : ~Contains(requests[j].url, resource)

\* The number of logged requests of category "font" with a 200/304
\* response.
SuccessfulFonts(requests) ==
    Cardinality({i \in 1..Len(requests) :
                    /\ requests[i].resourceType = "font"
                    /\ requests[i].response \in {<<200>>, <<304>>}})

\* The history fields of a font wait at the call, and at a tick.
AtFontCall(pr, requests, fonts) ==
    [pr EXCEPT !.emptyAtCall = (requests = <<>>),
               !.steady = /\ SuccessfulFonts(requests) = pr.count
                          /\ fonts = "ready"]
AtFontTick(pr, requests) ==
    [pr EXCEPT !.matchedAtTick = @ \/ SuccessfulFonts(requests) = pr.count]

\* The history fields of a call record at the call.
AtCall(pr, requests, doc) ==
    [pr EXCEPT !.emptyAtCall = (requests = <<>>),
               !.docAtCall = doc,
               !.sawMatch = \E i \in 1..Len(requests) :
                                Contains(requests[i].url, pr.resource),
               !.clearedBefore = @ \cap {pr.resource}]

\* The history fields of a call record after a facade event at time t that
\* found the log as before and left it as requests.
Observe(pr, event, before, requests, t) ==
    CASE event = "reset" ->
            [pr EXCEPT !.clearedBefore =
                            IF pr.st = "idle"
                            THEN {r \in Resources :
                                    FirstMatchHas(before, r, {200, 304})}
                            ELSE @,
                       !.resetDuring = @ \/ pr.st = "pending",
                       !.metInTime = FALSE,
                       !.resetsInRow = IF @ < 2 THEN @ + 1 ELSE @,
                       !.steady = FALSE]
      [] event = "response" ->
            [pr EXCEPT !.metInTime =
                \/ @
                \/ /\ pr.st = "pending"
                   /\ pr.kind = "resource"
                   /\ t - pr.startTime < pr.timeout
                   /\ FirstMatchHas(requests, pr.resource, {200, 304}),
                       !.steady = FALSE]
      [] event = "request" ->
            [pr EXCEPT !.sawMatch =
                \/ @
                \/ /\ pr.kind = "resource"
                   /\ Contains(requests[Len(requests)].url, pr.resource),
                       !.clearedBefore = IF pr.st = "idle" THEN {} ELSE @,
                       !.resetsInRow = 0,
                       !.steady = FALSE]
      [] OTHER -> pr

(* ----------------------------- actions --------------------------------- *)

\* The state of the program (comments name the source of each part):
\*   resourceRequests      this.resourceRequests of the Extensions instance
\*   facade.defaultTimeout this.defaultTimeout of that instance
\*   facade.peerRequests   this.resourceRequests of a second Extensions
\*                         instance, bound to another page
\*   api.resourceRequests  the module variable resourceRequests of the
\*                         init()-factory API (index)
\*   api.requests          the array handed to the waits API as `requests`
\*                         when init() ran
\*   api.aliased           whether the two are still the same array
\*   page                  the page: its document, document.fonts.ready,
\*                         window.__webFontsAllLoaded, and the calls made
\*                         to its waitForSelector / waitForFunction
NewPage ==
    [doc |-> 0, fonts |-> "loading", webFontsAllLoaded |-> FALSE,
     calls |-> <<>>, elements |-> <<>>,
     \* The page's clock: window.Date and window.__oldDate (0 is the
     \* native Date, c > 0 the HackyDate class of the c-th fastForwardTime
     \* call, classes[c] its milliseconds), and the last reading taken.
     clock |-> [Date |-> 0, oldDate |-> 0, classes |-> <<>>,
                read |-> [type |-> "none", time |-> 0]]]

Init ==
    /\ now = 0
    /\ polls = [p \in OnePoll |-> IdlePoll]
    /\ resourceRequests = <<>>
    /\ page = NewPage
    /\ facade = init(<<>>)
    /\ api = [resourceRequests |-> <<>>, requests |-> <<>>, aliased |-> TRUE]

\* pollFor({checkFn, interval, timeout, timeoutMsg}) with a caller's checkFn.
CallPollFor(p, interval, timeout, timeoutMsg) ==
    /\ polls[p].st = "idle"
    /\ now <= MaxStart
    /\ polls' = [polls EXCEPT ![p] =
            pollFor(@, "generic", <<>>, interval, timeout, timeoutMsg, now)]
    /\ UNCHANGED <<now, resourceRequests, page, facade, api>>

\* Mutant: the waits share one timer handle; the callback that clears it
\* stops the other wait's ticks as well.
TickSharedTimer(p) ==
    /\ polls[p].timerActive
    /\ now >= polls[p].nextFire
    /\ \E c \in checkFn(polls[p], resourceRequests) :
            LET after == TimerCallback(polls[p], c, now)
            IN  polls' = [q \in DOMAIN polls |->
                            IF q = p THEN after
                            ELSE IF after.timerActive THEN polls[q]
                            ELSE clearInterval(polls[q])]
    /\ UNCHANGED <<now, resourceRequests, page, facade, api>>

\* The interval timer of poll p fires (on time or late).
Tick(p) ==
    /\ polls[p].timerActive
    /\ now >= polls[p].nextFire
    /\ \E c \in checkFn(polls[p], resourceRequests) :
            polls' = [polls EXCEPT ![p] = TimerCallback(@, c, now)]
    /\ UNCHANGED <<now, resourceRequests, page, facade, api>>

\* A pending check of poll p settles.
Settle(p, i) ==
    /\ i \in InFlight(polls[p])
    /\ polls[p].checks[i].result # "never"
    /\ polls' = [polls EXCEPT ![p] = AfterCheck(@, i, now)]
    /\ UNCHANGED <<now, resourceRequests, page, facade, api>>

\* The clock advances by d ms.
Advance(d) ==
    /\ \/ now < MaxTime
       \/ \E p \in DOMAIN polls : polls[p].timerActive /\ now < polls[p].nextFire
    /\ now' = now + d
    /\ UNCHANGED <<polls, resourceRequests, page, facade, api>>

Next ==
    \/ \E p \in OnePoll, i \in 0..MaxInterval, t \in 0..MaxTimeout, m \in TimeoutMsgs :
            CallPollFor(p, i, t, m)
    \/ \E p \in OnePoll : Tick(p)
    \/ \E p \in OnePoll, i \in 1..MaxTime + MaxInterval + 2 : Settle(p, i)
    \/ Advance(1)

Spec == Init /\ [][Next]_vars

\* The same calls with one timeout message.
NextLive ==
    \/ \E p \in OnePoll, i \in 0..MaxInterval, t \in 0..MaxTimeout :
            CallPollFor(p, i, t, "Timed out")
    \/ \E p \in OnePoll : Tick(p)
    \/ \E p \in OnePoll, i \in 1..MaxTime + MaxInterval + 2 : Settle(p, i)
    \/ Advance(1)

\* The timer keeps firing and the clock advances.
LiveSpec ==
    /\ Init
    /\ [][NextLive]_vars
    /\ WF_vars(Advance(1))
    /\ \A p \in OnePoll : WF_vars(Tick(p))

(* ----------------------- facade actions -------------------------------- *)

\* extensions.waitForResource(resource, timeout)
CallWaitForResource(p, resource, timeout) ==
    /\ polls[p].st = "idle"
    /\ now <= MaxStart
    /\ polls' = [polls EXCEPT ![p] =
            AtCall(waitForResource(@, resourceRequests, resource, timeout, now),
                   resourceRequests, page.doc)]
    /\ UNCHANGED <<now, resourceRequests, page, facade, api>>

\* The page emits 'request': the constructor's handler appends it.
OnRequest(url, type) ==
    /\ Len(resourceRequests) < MaxLog
    /\ resourceRequests' =
            push(resourceRequests, NewRequest(url, type, page.doc))
    /\ polls' = [p \in DOMAIN polls |->
                    Observe(polls[p], "request", resourceRequests,
                            resourceRequests', now)]
    /\ UNCHANGED <<now, page, facade, api>>

\* The host receives the response of logged request i.
OnResponse(i, status) ==
    /\ i \in 1..Len(resourceRequests)
    /\ resourceRequests[i].response = <<>>
    /\ resourceRequests' = [resourceRequests EXCEPT ![i].response = <<status>>]
    /\ polls' = [p \in DOMAIN polls |->
                    Observe(polls[p], "response", resourceRequests,
                            resourceRequests', now)]
    /\ UNCHANGED <<now, page, facade, api>>

\* extensions.resetResourceRequests()
resetResourceRequests ==
    /\ resourceRequests' = ClearedRequests(resourceRequests)
    /\ polls' = [p \in DOMAIN polls |->
                    Observe(polls[p], "reset", resourceRequests,
                            resourceRequests', now)]
    /\ UNCHANGED <<now, page, facade, api>>

NextResource ==
    \/ \E p \in OnePoll, r \in Resources, t \in ResourceTimeouts :
            CallWaitForResource(p, r, t)
    \/ \E p \in OnePoll : Tick(p)
    \/ Advance(HalfInterval)
    \/ \E u \in Urls : OnRequest(u, "document")
    \/ \E i \in 1..MaxLog, s \in Statuses : OnResponse(i, s)
    \/ resetResourceRequests

SpecResource == Init /\ [][NextResource]_vars

(* ---------------------------- navigation ------------------------------- *)

\* The page loads another document (page.goto, a link, a reload).
Navigate ==
    /\ page.doc < MaxNavigations
    /\ page' = [page EXCEPT !.doc = @ + 1]
    /\ resourceRequests' = OnNavigation(resourceRequests)
    /\ UNCHANGED <<now, polls, facade, api>>

\* The waits of the navigation scenarios: one pattern, no or two intervals.
NavResources == {<<"a">>}
NavTimeouts == {0, 2 * PollInterval}

NextNav ==
    \/ \E p \in OnePoll, r \in NavResources, t \in NavTimeouts :
            CallWaitForResource(p, r, t)
    \/ \E p \in OnePoll : Tick(p)
    \/ Advance(HalfInterval)
    \/ \E u \in Urls : OnRequest(u, "document")
    \/ \E i \in 1..MaxLog, s \in Statuses : OnResponse(i, s)
    \/ resetResourceRequests
    \/ Navigate

SpecNav == Init /\ [][NextNav]_vars

(* ----------------------------- font wait ------------------------------ *)

\* `Timeout waiting for ${count} web font responses`
FontTimeoutMsg(count) ==
    "Timeout waiting for " \o ToString(count) \o " web font responses"

\* Mutant: the message does not say which count was expected.
waitForLoadedWebFontCountToBeAnyCount(pr, count, timeout, t) ==
    [pollFor(pr, "font", <<>>, PollInterval, timeout,
             "Timeout waiting for web font responses", t)
        EXCEPT !.count = count]

\* waitForLoadedWebFontCountToBe(count, timeout) called at time t.
waitForLoadedWebFontCountToBe(pr, count, timeout, t) ==
    [pollFor(pr, "font", <<>>, PollInterval, timeout,
             FontTimeoutMsg(count), t)
        EXCEPT !.count = count]

\* checkWebFontIsLoaded of the class: a plain function that pollFor calls
\* as checkFn(), so `this` is undefined in it (module code is strict) and
\* this.resourceRequests throws: the promise it returns is rejected.
checkWebFontIsLoaded(pr, requests) ==
    {[result |-> "reject", immediate |-> TRUE]}

\* extensions.waitForLoadedWebFontCountToBe(count, timeout).
CallWaitForLoadedWebFontCountToBe(p, count, timeout) ==
    /\ polls[p].st = "idle"
    /\ now <= MaxStart
    /\ polls' = [polls EXCEPT ![p] =
            AtFontCall(waitForLoadedWebFontCountToBe(@, count, timeout, now),
                       resourceRequests, page.fonts)]
    /\ UNCHANGED <<now, resourceRequests, page, facade, api>>

\* The interval timer of a font wait fires.
FontTick(p) ==
    /\ polls[p].timerActive
    /\ polls[p].kind = "font"
    /\ now >= polls[p].nextFire
    /\ \E c \in checkWebFontIsLoaded(polls[p], resourceRequests) :
            polls' = [polls EXCEPT ![p] =
                AtFontTick(TimerCallback(@, c, now), resourceRequests)]
    /\ UNCHANGED <<now, resourceRequests, page, facade, api>>

\* document.fonts.ready of the page settles.
FontsSettle(outcome) ==
    /\ page.fonts = "loading"
    /\ page' = [page EXCEPT !.fonts = outcome]
    /\ UNCHANGED <<now, polls, resourceRequests, facade, api>>

\* The font waits tried: counts up to the log's capacity, a timeout below
\* the interval, one of two intervals and the longest one.
FontCounts == 0..MaxLog
FontTimeouts ==
    {HalfInterval, 2 * PollInterval, MaxTimeoutSteps * HalfInterval}
ResourceTypes == {"font", "document"}
FontStatuses == {200, 404}
FontUrls == {<<"a", "b">>}

NextFont ==
    \/ \E p \in OnePoll, n \in FontCounts, t \in FontTimeouts :
            CallWaitForLoadedWebFontCountToBe(p, n, t)
    \/ \E p \in OnePoll : FontTick(p)
    \/ Advance(HalfInterval)
    \/ \E u \in FontUrls, ty \in ResourceTypes : OnRequest(u, ty)
    \/ \E i \in 1..MaxLog, s \in FontStatuses : OnResponse(i, s)
    \/ resetResourceRequests
    \/ \E o \in {"ready", "failed"} : FontsSettle(o)

SpecFont == Init /\ [][NextFont]_vars

(* ------------------------ init()-factory API --------------------------- *)

\* The value a promise is rejected with when its code throws a TypeError.
TypeError(message) == [type |-> "TypeError", text |-> message]

\* resourceRequestHasResponded() of api/waits: `requests.find(...)` handed
\* to isSuccessfulResponse as it is; on undefined, request.response()
\* throws.
apiResourceRequestHasResponded(requests, resource) ==
    LET i == FindRequest(requests, resource)
    IN  IF i = 0 THEN "throw"
        ELSE IF isSuccessfulResponse(requests[i]) THEN "true" ELSE "false"

\* waitForResource(resource, timeout) of api/waits called at time t: the
\* promise executor; the promise follows pollFor's promise.
apiWaitForResource(pr, requests, resource, timeout, t) ==
    LET called == [pr EXCEPT !.st = "pending", !.kind = "apiResource",
                             !.resource = resource, !.timeout = timeout,
                             !.startTime = t]
        responded == apiResourceRequestHasResponded(requests, resource)
    IN  CASE responded = "throw" ->
                reject(called,
                       TypeError("Cannot read property 'response' of undefined"),
                       t)
          [] responded = "true" -> resolve(called, NoValue, t)
          [] OTHER -> pollFor(pr, "apiResource", resource, PollInterval,
                              timeout, ResourceTimeoutMsg, t)

\* checkFn: async () => resourceRequestHasResponded()
apiCheckFn(pr, requests) ==
    LET responded == apiResourceRequestHasResponded(requests, pr.resource)
    IN  {[result |-> IF responded = "throw" THEN "reject" ELSE responded,
          immediate |-> TRUE]}

\* resetRequests(): resourceRequests = []; the waits keep the array they
\* were given.
resetRequests ==
    /\ api' = [api EXCEPT !.resourceRequests = <<>>, !.aliased = FALSE]
    /\ polls' = [p \in DOMAIN polls |->
                    Observe(polls[p], "reset", api.resourceRequests,
                            <<>>, now)]
    /\ UNCHANGED <<now, resourceRequests, page, facade>>

\* The page emits 'request': pushed on the array the module variable holds
\* now.
ApiOnRequest(url, type) ==
    /\ Len(api.resourceRequests) < MaxLog
    /\ LET request == NewRequest(url, type, page.doc)
       IN  /\ api' = [api EXCEPT
                        !.resourceRequests = push(@, request),
                        !.requests = IF api.aliased THEN push(@, request)
                                     ELSE @]
           /\ polls' = [p \in DOMAIN polls |->
                    Observe(polls[p], "request", api.resourceRequests,
                            push(api.resourceRequests, request), now)]
    /\ UNCHANGED <<now, resourceRequests, page, facade>>

\* The host receives the response of request i of the module's array.
ApiOnResponse(i, status) ==
    /\ i \in 1..Len(api.resourceRequests)
    /\ api.resourceRequests[i].response = <<>>
    /\ api' = [api EXCEPT
                !.resourceRequests[i].response = <<status>>,
                !.requests = IF api.aliased
                             THEN [@ EXCEPT ![i].response = <<status>>]
                             ELSE @]
    /\ UNCHANGED <<now, polls, resourceRequests, page, facade>>

\* The host receives the response of request i of the array the waits
\* hold, after a reset parted it from the module's array.
ApiOnStaleResponse(i, status) ==
    /\ ~api.aliased
    /\ i \in 1..Len(api.requests)
    /\ api.requests[i].response = <<>>
    /\ api' = [api EXCEPT !.requests[i].response = <<status>>]
    /\ UNCHANGED <<now, polls, resourceRequests, page, facade>>

\* extensions.waitForResource(resource, timeout) of the factory API.
CallApiWaitForResource(p, resource, timeout) ==
    /\ polls[p].st = "idle"
    /\ now <= MaxStart
    /\ polls' = [polls EXCEPT ![p] =
            AtCall(apiWaitForResource(@, api.requests, resource, timeout, now),
                   api.resourceRequests, page.doc)]
    /\ UNCHANGED <<now, resourceRequests, page, facade, api>>

\* The interval timer of a wait of the factory API fires.
ApiTick(p) ==
    /\ polls[p].timerActive
    /\ polls[p].kind = "apiResource"
    /\ now >= polls[p].nextFire
    /\ \E c \in apiCheckFn(polls[p], api.requests) :
            polls' = [polls EXCEPT ![p] = TimerCallback(@, c, now)]
    /\ UNCHANGED <<now, resourceRequests, page, facade, api>>

\* The scenarios of the factory API: one URL, a pattern it contains and
\* one it does not, a timeout below the interval and the longest one.
ApiUrls == {<<"a", "b">>}
ApiResources == {<<"a">>, <<"b", "a">>}
ApiStatuses == {200, 404}
ApiTimeouts == {HalfInterval, MaxTimeoutSteps * HalfInterval}

NextApi ==
    \/ \E p \in OnePoll, r \in ApiResources, t \in ApiTimeouts :
            CallApiWaitForResource(p, r, t)
    \/ \E p \in OnePoll : ApiTick(p)
    \/ Advance(HalfInterval)
    \/ \E u \in ApiUrls : ApiOnRequest(u, "document")
    \/ \E i \in 1..MaxLog, s \in ApiStatuses : ApiOnResponse(i, s)
    \/ \E i \in 1..MaxLog, s \in ApiStatuses : ApiOnStaleResponse(i, s)
    \/ resetRequests

SpecApi == Init /\ [][NextApi]_vars

(* ------------------- font wait of the factory API ---------------------- *)

\* requests.filter(r => r.resourceType() === 'font' &&
\* isSuccessfulResponse(r)).length
fontResponses(requests) ==
    Cardinality({i \in 1..Len(requests) :
                    /\ requests[i].resourceType = "font"
                    /\ isSuccessfulResponse(requests[i])})

\* Mutant: more successful font requests than count are accepted too.
apiCheckWebFontIsLoadedAtLeast(pr, requests) ==
    IF fontResponses(requests) >= pr.count
    THEN IF pr.hasInjected THEN "read" ELSE "install"
    ELSE "mismatch"

\* checkWebFontIsLoaded of api/waits up to its first await: what the
\* invocation goes on to do.  "mismatch": return false; "read": evaluate
\* !!window.__webFontsAllLoaded; "install": evaluate the function that
\* awaits document.fonts.ready and sets the flag.
apiCheckWebFontIsLoaded(pr, requests) ==
    IF fontResponses(requests) = pr.count
    THEN IF pr.hasInjected THEN "read" ELSE "install"
    ELSE "mismatch"

\* waitForLoadedWebFontCountToBe(count, timeout) of api/waits.
apiWaitForLoadedWebFontCountToBe(pr, count, timeout, t) ==
    [pollFor(pr, "apiFont", <<>>, PollInterval, timeout,
             FontTimeoutMsg(count), t)
        EXCEPT !.count = count]

\* One firing of the timer of a font wait: the callback, and the check it
\* invokes up to its first await.  seen is history: the number of
\* successful font requests in the log at the invocation.
apiFontTimerCallback(pr, requests, t) ==
    LET op == apiCheckWebFontIsLoaded(pr, requests)
        c == IF op = "mismatch"
             THEN [result |-> "false", immediate |-> TRUE]
             ELSE [result |-> "pending", immediate |-> FALSE]
        after == TimerCallback(pr, c, t)
        i == Len(after.checks)
    IN  IF i = Len(pr.checks) THEN after
        ELSE [after EXCEPT
                !.checks[i] =
                    [result |-> after.checks[i].result,
                     immediate |-> after.checks[i].immediate,
                     done |-> after.checks[i].done,
                     settledTick |-> after.checks[i].settledTick,
                     op |-> op, seen |-> SuccessfulFonts(requests)],
                !.installs = IF op = "install" THEN @ + 1 ELSE @]

\* Mutant: the installing check returns what the flag has become.
apiAfterEvaluateInstallReturnsFlag(pr, i, flag, t) ==
    IF pr.checks[i].op = "read"
    THEN AfterCheck([pr EXCEPT !.checks[i].result =
                                    IF flag THEN "true" ELSE "false"],
                    i, t)
    ELSE AfterCheck([pr EXCEPT !.checks[i].result = "true",
                               !.hasInjected = TRUE],
                    i, t)

\* The evaluate awaited by check i returned: the rest of the check (a read
\* returns the flag; an install sets hasInjected... and returns false) and
\* the callback after `await checkFn()`.
apiAfterEvaluate(pr, i, flag, t) ==
    IF pr.checks[i].op = "read"
    THEN AfterCheck([pr EXCEPT !.checks[i].result =
                                    IF flag THEN "true" ELSE "false"],
                    i, t)
    ELSE AfterCheck([pr EXCEPT !.checks[i].result = "false",
                               !.hasInjected = TRUE],
                    i, t)

CallApiWaitForLoadedWebFontCountToBe(p, count, timeout) ==
    /\ polls[p].st = "idle"
    /\ now <= MaxStart
    /\ polls' = [polls EXCEPT ![p] =
            AtFontCall(apiWaitForLoadedWebFontCountToBe(@, count, timeout, now),
                       api.resourceRequests, page.fonts)]
    /\ UNCHANGED <<now, resourceRequests, page, facade, api>>

ApiFontTick(p) ==
    /\ polls[p].timerActive
    /\ polls[p].kind = "apiFont"
    /\ now >= polls[p].nextFire
    /\ polls' = [polls EXCEPT ![p] =
            AtFontTick(apiFontTimerCallback(@, api.requests, now),
                       api.resourceRequests)]
    /\ UNCHANGED <<now, resourceRequests, page, facade, api>>

\* puppeteerPage.evaluate of check i of wait p returns.  The installed
\* function returns when document.fonts.ready has settled; it has set
\* window.__webFontsAllLoaded if that promise resolved.
ApiEvaluateDone(p, i) ==
    /\ polls[p].kind = "apiFont"
    /\ i \in InFlight(polls[p])
    /\ polls[p].checks[i].op = "install" => page.fonts # "loading"
    /\ polls' = [polls EXCEPT ![p] =
            apiAfterEvaluate(@, i, page.webFontsAllLoaded, now)]
    /\ page' = [page EXCEPT !.webFontsAllLoaded =
                    \/ @
                    \/ /\ polls[p].checks[i].op = "install"
                       /\ page.fonts = "ready"]
    /\ UNCHANGED <<now, resourceRequests, facade, api>>

\* At most MaxChecks checks of a font wait.
MaxChecks == MaxTimeoutSteps \div 2

NextApiFont ==
    \/ \E p \in OnePoll, n \in FontCounts, t \in FontTimeouts :
            CallApiWaitForLoadedWebFontCountToBe(p, n, t)
    \/ \E p \in OnePoll : ApiFontTick(p)
    \/ \E p \in OnePoll, i \in 1..MaxChecks : ApiEvaluateDone(p, i)
    \/ Advance(HalfInterval)
    \/ \E u \in FontUrls, ty \in ResourceTypes : ApiOnRequest(u, ty)
    \/ \E i \in 1..MaxLog, s \in FontStatuses : ApiOnResponse(i, s)
    \/ \E o \in {"ready", "failed"} : FontsSettle(o)

SpecApiFont == Init /\ [][NextApiFont]_vars

(* ------------------------ two concurrent waits ------------------------- *)

\* Two waits on one facade.
TwoPolls == {1, 2}

InitTwoWaits ==
    /\ now = 0
    /\ polls = [p \in TwoPolls |-> IdlePoll]
    /\ resourceRequests = <<>>
    /\ page = NewPage
    /\ facade = init(<<>>)
    /\ api = [resourceRequests |-> <<>>, requests |-> <<>>, aliased |-> TRUE]

\* The patterns, timeouts and statuses of the two waits.
TwoUrls == {<<"a", "b">>}
TwoResources == {<<"a">>, <<"b", "a">>}
TwoTimeouts == {PollInterval + HalfInterval, MaxTimeoutSteps * HalfInterval}
TwoStatuses == {200, 404}

NextTwoWaits ==
    \/ \E p \in TwoPolls, r \in TwoResources, t \in TwoTimeouts :
            CallWaitForResource(p, r, t)
    \/ \E p \in TwoPolls : Tick(p)
    \/ Advance(HalfInterval)
    \/ \E u \in TwoUrls : OnRequest(u, "document")
    \/ \E i \in 1..MaxLog, s \in TwoStatuses : OnResponse(i, s)

SpecTwoWaits == InitTwoWaits /\ [][NextTwoWaits]_vars

(* --------------------- delegating operations --------------------------- *)

\* The page holds at most MaxCalls recorded calls of its primitives.
MaxCalls == 2

\* The waits of the facade that delegate to the page's waitForSelector or
\* waitForFunction.
DelegatingWaits ==
    {"waitUntilExistsAndVisible", "waitWhileExistsAndVisible",
     "waitUntilSelectorHasVisibleContent", "waitWhileSelectorHasVisibleContent",
     "waitForNthSelectorAttribute", "waitForSelectorAttribute",
     "waitForNthSelectorAttributeValue", "waitForSelectorAttributeValue",
     "waitForElementCount", "waitForDocumentTitle", "waitForUrl"}

\* The call a delegating wait makes on the page: the primitive and the
\* timeout option handed to it, <<>> when the options hold no timeout.
puppeteerPageCall(op, defaultTimeout) ==
    CASE op = "waitUntilExistsAndVisible" ->
            [op |-> op, primitive |-> "waitForSelector",
             option |-> "visible", timeout |-> <<>>]
      [] op = "waitWhileExistsAndVisible" ->
            [op |-> op, primitive |-> "waitForSelector",
             option |-> "hidden", timeout |-> <<>>]
      [] OTHER ->
            [op |-> op, primitive |-> "waitForFunction",
             option |-> "", timeout |-> <<defaultTimeout>>]

\* extensions.<op>(...) for a delegating wait.
CallDelegatingWait(op) ==
    /\ Len(page.calls) < MaxCalls
    /\ page' = [page EXCEPT !.calls =
                    Append(@, puppeteerPageCall(op, facade.defaultTimeout))]
    /\ UNCHANGED <<now, polls, resourceRequests, facade, api>>

\* The selectors tried and the ones that match an element of the page.
Selectors == {"#todo", "#none"}
PresentSelectors == {"#todo"}
Properties == {"value", "checked"}

\* The error puppeteerPage.evaluate rejects with when the page function
\* throws on a null element.
EvaluationFailed ==
    [type |-> "Error",
     text |-> "Evaluation failed: TypeError: Cannot read property of null"]

\* getPropertyValue(selector, property): `return evaluate(...)` inside
\* try/catch without await: the async function's promise follows
\* evaluate's promise, and a rejection of it never reaches the catch.
getPropertyValue(pr, selector, property, t) ==
    LET called == [pr EXCEPT !.st = "pending", !.kind = "getPropertyValue",
                             !.args = <<selector, property>>, !.startTime = t]
    IN  IF selector \in PresentSelectors
        THEN resolve(called, Str(property), t)
        ELSE reject(called, EvaluationFailed, t)

CallGetPropertyValue(p, selector, property) ==
    /\ polls[p].st = "idle"
    /\ polls' = [polls EXCEPT ![p] =
                    getPropertyValue(@, selector, property, now)]
    /\ UNCHANGED <<now, resourceRequests, page, facade, api>>

\* A facade made by init(page) or init(page, timeout).
InitTimeoutArgs == {<<>>, <<PollInterval + HalfInterval>>}
InitFacade ==
    /\ now = 0
    /\ polls = [p \in TwoPolls |-> IdlePoll]
    /\ resourceRequests = <<>>
    /\ page = NewPage
    /\ \E t \in InitTimeoutArgs : facade = init(t)
    /\ api = [resourceRequests |-> <<>>, requests |-> <<>>, aliased |-> TRUE]

NextDelegates ==
    \/ \E op \in DelegatingWaits : CallDelegatingWait(op)
    \/ \E p \in TwoPolls, sel \in Selectors, prop \in Properties :
            CallGetPropertyValue(p, sel, prop)

SpecDelegates == InitFacade /\ [][NextDelegates]_vars

(* ------------------------- default timeout ----------------------------- *)

\* extensions.waitForResource(resource) or (resource, timeout).
CallWaitForResourceWith(p, resource, timeoutArg) ==
    /\ polls[p].st = "idle"
    /\ now <= MaxStart
    /\ polls' = [polls EXCEPT ![p] =
            [AtCall(waitForResource(@, resourceRequests, resource,
                        Default(timeoutArg, facade.defaultTimeout), now),
                    resourceRequests, page.doc)
             EXCEPT !.timeoutArg = timeoutArg]]
    /\ UNCHANGED <<now, resourceRequests, page, facade, api>>

\* extensions.waitForLoadedWebFontCountToBe(count) or (count, timeout).
CallWaitForLoadedWebFontCountToBeWith(p, count, timeoutArg) ==
    /\ polls[p].st = "idle"
    /\ now <= MaxStart
    /\ polls' = [polls EXCEPT ![p] =
            [AtFontCall(waitForLoadedWebFontCountToBe(@, count,
                            Default(timeoutArg, facade.defaultTimeout), now),
                        resourceRequests, page.fonts)
             EXCEPT !.timeoutArg = timeoutArg]]
    /\ UNCHANGED <<now, resourceRequests, page, facade, api>>

\* The interval timer of a waitForResource call fires.
ResourceTick(p) == polls[p].kind = "resource" /\ Tick(p)

\* The clock advances by d ms once every timer that is due has fired: the
\* event loop is idle between the ticks of these waits.
AdvanceWhenIdle(d) ==
    /\ \A p \in DOMAIN polls : polls[p].timerActive => now < polls[p].nextFire
    /\ Advance(d)

CallTimeoutArgs == {<<>>, <<2 * PollInterval + HalfInterval>>}
DefaultsUrls == {<<"a", "b">>}
DefaultsResources == {<<"a">>}

NextDefaults ==
    \/ \E p \in TwoPolls, r \in DefaultsResources, t \in CallTimeoutArgs :
            CallWaitForResourceWith(p, r, t)
    \/ \E p \in TwoPolls, t \in CallTimeoutArgs :
            CallWaitForLoadedWebFontCountToBeWith(p, 1, t)
    \/ \E p \in TwoPolls : ResourceTick(p)
    \/ \E p \in TwoPolls : FontTick(p)
    \/ AdvanceWhenIdle(PollInterval)
    \/ \E u \in DefaultsUrls : OnRequest(u, "document")

SpecDefaults == InitFacade /\ [][NextDefaults]_vars

(* -------------------------- two instances ------------------------------ *)

\* Mutant: the log is shared by all instances; the request of the second
\* page lands in the first instance's log as well.
PeerOnRequestShared(url, type) ==
    /\ Len(facade.peerRequests) < MaxLog
    /\ Len(resourceRequests) < MaxLog
    /\ facade' = [facade EXCEPT !.peerRequests =
                        push(@, NewRequest(url, type, 0))]
    /\ resourceRequests' = push(resourceRequests, NewRequest(url, type, 0))
    /\ UNCHANGED <<now, polls, page, api>>

\* The page of the second instance emits 'request'.
PeerOnRequest(url, type) ==
    /\ Len(facade.peerRequests) < MaxLog
    /\ facade' = [facade EXCEPT !.peerRequests =
                        push(@, NewRequest(url, type, 0))]
    /\ UNCHANGED <<now, polls, resourceRequests, page, api>>

\* The host receives the response of request i of the second page.
PeerOnResponse(i, status) ==
    /\ i \in 1..Len(facade.peerRequests)
    /\ facade.peerRequests[i].response = <<>>
    /\ facade' = [facade EXCEPT !.peerRequests[i].response = <<status>>]
    /\ UNCHANGED <<now, polls, resourceRequests, page, api>>

\* resetResourceRequests() of the second instance.
PeerResetResourceRequests ==
    /\ facade' = [facade EXCEPT !.peerRequests = ClearedRequests(@)]
    /\ UNCHANGED <<now, polls, resourceRequests, page, api>>

NextPeers ==
    \/ \E u \in Urls : OnRequest(u, "document")
    \/ \E i \in 1..MaxLog, s \in Statuses : OnResponse(i, s)
    \/ resetResourceRequests
    \/ \E u \in Urls : PeerOnRequest(u, "document")
    \/ \E i \in 1..MaxLog, s \in Statuses : PeerOnResponse(i, s)
    \/ PeerResetResourceRequests

SpecPeers == Init /\ [][NextPeers]_vars


(* -------------------------- attribute waits ---------------------------- *)

\* The document holds at most MaxElements elements.
MaxElements == 2

\* undefined, as the value of an array slot or attribute that is not there.
Undefined == "undefined"

\* The elements of the document: a tag (what a selector matches) and the
\* value of each attribute, Undefined when the element lacks it.
Tags == {"li", "p"}
AttributeNames == {"data-id"}
AttributeValues == {"1", "2"}
Element(tag, attributes) == [tag |-> tag, attributes |-> attributes]

\* document.querySelectorAll(selector): the matches in document order.
\* JavaScript indexes them from 0; slot i of the list is At0(list, i).
querySelectorAll(elements, selector) ==
    SelectSeq(elements, LAMBDA e : e.tag = selector)

At0(list, i) == IF i + 1 \in DOMAIN list THEN <<list[i + 1]>> ELSE <<>>

\* The page function of waitForNthSelectorAttribute: "throw" when the slot
\* is undefined (element.attributes of undefined).
NthSelectorAttribute(elements, selector, nth, attributeName) ==
    LET element == At0(querySelectorAll(elements, selector), nth - 1)
    IN  IF element = <<>> THEN "throw"
        ELSE IF element[1].attributes[attributeName] # Undefined
             THEN "true" ELSE "false"

\* The page function of waitForNthSelectorAttributeValue.
NthSelectorAttributeValue(elements, selector, nth, attributeName, attributeValue) ==
    LET element == At0(querySelectorAll(elements, selector), nth - 1)
    IN  IF element = <<>> THEN "throw"
        ELSE IF /\ element[1].attributes[attributeName] # Undefined
                /\ element[1].attributes[attributeName] = attributeValue
             THEN "true" ELSE "false"

\* puppeteerPage.waitForFunction(fn, { timeout }, ...args): the promise of
\* the host's wait.
waitForFunction(pr, fn, timeout, args, t) ==
    [pr EXCEPT !.st = "pending", !.kind = "waitForFunction",
               !.timeout = timeout, !.args = <<fn>> \o args, !.startTime = t]

waitForNthSelectorAttribute(pr, selector, nth, attributeName, defaultTimeout, t) ==
    waitForFunction(pr, "NthSelectorAttribute", defaultTimeout,
                    <<selector, nth, attributeName>>, t)

\* Mutant: the wrapper asks for slot 0.
waitForSelectorAttributeNthZero(pr, selector, attributeName, defaultTimeout, t) ==
    waitForNthSelectorAttribute(pr, selector, 0, attributeName, defaultTimeout, t)

waitForSelectorAttribute(pr, selector, attributeName, defaultTimeout, t) ==
    waitForNthSelectorAttribute(pr, selector, 1, attributeName, defaultTimeout, t)

waitForNthSelectorAttributeValue(pr, selector, nth, attributeName, attributeValue, defaultTimeout, t) ==
    waitForFunction(pr, "NthSelectorAttributeValue", defaultTimeout,
                    <<selector, nth, attributeName, attributeValue>>, t)

waitForSelectorAttributeValue(pr, selector, attributeName, attributeValue, defaultTimeout, t) ==
    waitForNthSelectorAttributeValue(pr, selector, 1, attributeName,
                                     attributeValue, defaultTimeout, t)

\* The result of the page function of a pending host wait on the document.
PageFunction(pr, elements) ==
    IF pr.args[1] = "NthSelectorAttribute"
    THEN NthSelectorAttribute(elements, pr.args[2], pr.args[3], pr.args[4])
    ELSE NthSelectorAttributeValue(elements, pr.args[2], pr.args[3],
                                   pr.args[4], pr.args[5])

CallWaitForNthSelectorAttribute(p, selector, nth, attributeName) ==
    /\ polls[p].st = "idle"
    /\ polls' = [polls EXCEPT ![p] =
            [waitForNthSelectorAttribute(@, selector, nth, attributeName,
                                         facade.defaultTimeout, now)
             EXCEPT !.op = "waitForNthSelectorAttribute"]]
    /\ UNCHANGED <<now, resourceRequests, page, facade, api>>

CallWaitForSelectorAttribute(p, selector, attributeName) ==
    /\ polls[p].st = "idle"
    /\ polls' = [polls EXCEPT ![p] =
            [waitForSelectorAttribute(@, selector, attributeName,
                                      facade.defaultTimeout, now)
             EXCEPT !.op = "waitForSelectorAttribute"]]
    /\ UNCHANGED <<now, resourceRequests, page, facade, api>>

CallWaitForNthSelectorAttributeValue(p, selector, nth, attributeName, attributeValue) ==
    /\ polls[p].st = "idle"
    /\ polls' = [polls EXCEPT ![p] =
            [waitForNthSelectorAttributeValue(@, selector, nth, attributeName,
                            attributeValue, facade.defaultTimeout, now)
             EXCEPT !.op = "waitForNthSelectorAttributeValue"]]
    /\ UNCHANGED <<now, resourceRequests, page, facade, api>>

CallWaitForSelectorAttributeValue(p, selector, attributeName, attributeValue) ==
    /\ polls[p].st = "idle"
    /\ polls' = [polls EXCEPT ![p] =
            [waitForSelectorAttributeValue(@, selector, attributeName,
                            attributeValue, facade.defaultTimeout, now)
             EXCEPT !.op = "waitForSelectorAttributeValue"]]
    /\ UNCHANGED <<now, resourceRequests, page, facade, api>>

\* The host runs the page function of a pending wait: a truthy result
\* resolves the wait, an exception rejects it, a falsy one leaves it pending.
HostCheck(p) ==
    /\ polls[p].st = "pending"
    /\ polls[p].kind = "waitForFunction"
    /\ LET result == PageFunction(polls[p], page.elements)
       IN  /\ result # "false"
           /\ polls' = [polls EXCEPT ![p] =
                  IF result = "true" THEN resolve(@, NoValue, now)
                  ELSE reject(@, EvaluationFailed, now)]
    /\ UNCHANGED <<now, resourceRequests, page, facade, api>>

\* The document changes: an element is appended, or put first.
AppendElement(tag, first) ==
    /\ Len(page.elements) < MaxElements
    /\ LET e == Element(tag, [a \in AttributeNames |-> Undefined])
       IN  page' = [page EXCEPT !.elements =
                        IF first THEN <<e>> \o @ ELSE Append(@, e)]
    /\ UNCHANGED <<now, polls, resourceRequests, facade, api>>

\* element.setAttribute(name, value) / removeAttribute(name).
SetAttribute(i, name, value) ==
    /\ i \in DOMAIN page.elements
    /\ page.elements[i].attributes[name] # value
    /\ page' = [page EXCEPT !.elements[i].attributes[name] = value]
    /\ UNCHANGED <<now, polls, resourceRequests, facade, api>>

Nths == 0..MaxElements

NextAttributes ==
    \/ \E p \in OnePoll, s \in Tags, n \in Nths, a \in AttributeNames :
            CallWaitForNthSelectorAttribute(p, s, n, a)
    \/ \E p \in OnePoll, s \in Tags, a \in AttributeNames :
            CallWaitForSelectorAttribute(p, s, a)
    \/ \E p \in OnePoll, s \in Tags, n \in Nths, a \in AttributeNames,
          v \in AttributeValues :
            CallWaitForNthSelectorAttributeValue(p, s, n, a, v)
    \/ \E p \in OnePoll, s \in Tags, a \in AttributeNames, v \in AttributeValues :
            CallWaitForSelectorAttributeValue(p, s, a, v)
    \/ \E p \in OnePoll : HostCheck(p)
    \/ \E t \in Tags, first \in BOOLEAN : AppendElement(t, first)
    \/ \E i \in 1..MaxElements + 1, a \in AttributeNames,
          v \in AttributeValues \cup {Undefined} : SetAttribute(i, a, v)

SpecAttributes == Init /\ [][NextAttributes]_vars


(* --------------------------- fastForwardTime --------------------------- *)

\* fastForwardTime is called at most MaxFastForwards times on the page.
MaxFastForwards == 2
\* Constructors nest at most MaxStack deep before the engine gives up.
MaxStack == 3
Milliseconds == {1, 2}

\* A value in the page: a native Date or a HackyDate holding the time, or
\* the exception thrown instead.
Native(time) == [type |-> "Date", time |-> time]
Hacky(time) == [type |-> "HackyDate", time |-> time]
Thrown(name) == [type |-> name, time |-> 0]
IsThrown(v) == v.type \in {"RangeError", "TypeError"}

\* new c(), for the class c that window.Date or window.__oldDate names. The
\* HackyDate constructor reads window.__oldDate when it runs:
\* new window.__oldDate(new window.__oldDate().getTime() + milliseconds);
\* only a native Date has getTime.
RECURSIVE Construct(_, _, _, _)
Construct(c, clock, realTime, depth) ==
    IF c = 0 THEN Native(realTime)
    ELSE IF depth >= MaxStack THEN Thrown("RangeError")
    ELSE LET inner == Construct(clock.oldDate, clock, realTime, depth + 1)
         IN  IF IsThrown(inner) THEN inner
             ELSE IF inner.type # "Date" THEN Thrown("TypeError")
             ELSE Hacky(inner.time + clock.classes[c])

\* new Date().now() in the page: only HackyDate instances have now().
ReadNow(clock, realTime) ==
    LET d == Construct(clock.Date, clock, realTime, 0)
    IN  IF IsThrown(d) THEN d
        ELSE IF d.type = "Date" THEN Thrown("TypeError")
        ELSE [type |-> "number", time |-> d.time]

\* The page function of fastForwardTime: window.__oldDate = Date; class
\* HackyDate { ... }; window.Date = HackyDate.
fastForwardTime(clock, milliseconds) ==
    [clock EXCEPT !.oldDate = clock.Date,
                  !.classes = Append(@, milliseconds),
                  !.Date = Len(clock.classes) + 1]

CallFastForwardTime(milliseconds) ==
    /\ Len(page.clock.classes) < MaxFastForwards
    /\ page' = [page EXCEPT !.clock = fastForwardTime(@, milliseconds)]
    /\ UNCHANGED <<now, polls, resourceRequests, facade, api>>

\* A script of the page constructs a clock and reads it.
PageReadsClock ==
    /\ page.clock.Date # 0
    /\ page' = [page EXCEPT !.clock.read = ReadNow(page.clock, now)]
    /\ UNCHANGED <<now, polls, resourceRequests, facade, api>>

NextClock ==
    \/ \E ms \in Milliseconds : CallFastForwardTime(ms)
    \/ PageReadsClock
    \/ Advance(1)

SpecClock == Init /\ [][NextClock]_vars


(* ------------------- two facades of the factory API -------------------- *)

\* init(pageA) and init(pageB) of index.ts: `let resourceRequests = []` is
\* a variable of the module, so both 'request' handlers push on it, both
\* calls hand its array to setupWaits, and either resetRequests rebinds it.
\* api.requests is the array both facades' waits hold. The polls are the
\* waits of the first facade.

\* The second page emits 'request'.
ApiPeerOnRequest(url, type) ==
    /\ Len(api.resourceRequests) < MaxLog
    /\ LET request == [NewRequest(url, type, 0) EXCEPT !.page = 2]
       IN  /\ api' = [api EXCEPT
                        !.resourceRequests = push(@, request),
                        !.requests = IF api.aliased THEN push(@, request)
                                     ELSE @]
           /\ polls' = [p \in DOMAIN polls |->
                    Observe(polls[p], "request", api.resourceRequests,
                            push(api.resourceRequests, request), now)]
    /\ UNCHANGED <<now, resourceRequests, page, facade>>

\* One pattern the URL contains, the longest timeout, one status.
ApiPeerResources == {<<"a">>}
ApiPeerTimeouts == {MaxTimeoutSteps * HalfInterval}
ApiPeerStatuses == {200}

NextApiPeers ==
    \/ \E p \in OnePoll, r \in ApiPeerResources, t \in ApiPeerTimeouts :
            CallApiWaitForResource(p, r, t)
    \/ \E p \in OnePoll : ApiTick(p)
    \/ Advance(HalfInterval)
    \/ \E u \in ApiUrls : ApiOnRequest(u, "document")
    \/ \E u \in ApiUrls : ApiPeerOnRequest(u, "document")
    \/ \E i \in 1..MaxLog, s \in ApiPeerStatuses : ApiOnResponse(i, s)
    \/ resetRequests

SpecApiPeers == Init /\ [][NextApiPeers]_vars

(* ============================== claims ================================= *)

Settled(pr) == pr.st \in {"resolved", "rejected"}
Elapsed(pr, t) == t - pr.startTime
\* An error object, as opposed to a bare string.
TimeoutError(msg) == [type |-> "TimeoutError", text |-> msg]

(* C1: whenever the promise of a pollFor call is resolved or rejected, its  *)
(* interval timer is cleared, and from then on no checkFn invocation is     *)
(* started.                                                                 *)
C1_TimerCancelledOnSettle ==
    /\ [](\A p \in DOMAIN polls : Settled(polls[p]) => ~polls[p].timerActive)
    /\ [][\A p \in DOMAIN polls :
            Settled(polls[p]) => Len(polls'[p].checks) = Len(polls[p].checks)]_vars

\* A call that succeeded while another check was still awaited, some time ago.
C1_Witness ==
    \E p \in DOMAIN polls :
        /\ polls[p].st = "resolved"
        /\ polls[p].ticks >= 2
        /\ InFlight(polls[p]) # {}
        /\ now > polls[p].settledAt

(* C2 as stated: at most one checkFn invocation of a pollFor call is in     *)
(* flight at any time.                                                      *)
C2_AtMostOneCheckInFlight ==
    \A p \in DOMAIN polls : Cardinality(InFlight(polls[p])) <= 1

(* C2 amended: checks are not serialised. Every tick that fires while       *)
(* elapsed < timeout starts exactly one checkFn invocation, whether or not  *)
(* earlier invocations are pending; no other step starts one.               *)
C2_OneCheckPerTick ==
    [][\A p \in DOMAIN polls :
        Len(polls'[p].checks) - Len(polls[p].checks) =
            IF /\ polls'[p].ticks = polls[p].ticks + 1
               /\ Elapsed(polls[p], now) < polls[p].timeout
            THEN 1 ELSE 0]_vars

\* Two checks of one call are pending at once.
C2_Witness ==
    \E p \in DOMAIN polls : Cardinality(InFlight(polls[p])) >= 2

(* C3: pollFor never reports success once elapsed >= timeout.               *)
C3_NoSuccessAfterDeadline ==
    \A p \in DOMAIN polls :
        (polls[p].st = "resolved" /\ polls[p].timerCreated)
            => Elapsed(polls[p], polls[p].settledAt) < polls[p].timeout

(* C4: once a checkFn invocation has rejected, the promise of pollFor is    *)
(* rejected (with that error) and the timer is cancelled.                   *)
C4_CheckErrorIsFatal ==
    \A p \in DOMAIN polls :
        polls[p].unhandled > 0
            => /\ polls[p].st = "rejected"
               /\ polls[p].val.type = "Error"
               /\ ~polls[p].timerActive

(* C5 as stated: when the first checkFn invocation returns true, checkFn is *)
(* invoked once only and the call does not fail, whatever the latency.      *)
C5_FirstTrueOneInvocation ==
    \A p \in DOMAIN polls :
        (polls[p].checks # <<>> /\ polls[p].checks[1].result = "true")
            => Len(polls[p].checks) = 1 /\ polls[p].st # "rejected"

(* C5 amended: when the first checkFn invocation returns true and settles   *)
(* before the second interval tick fires, pollFor has resolved with         *)
(* 'Finished polling' after exactly one invocation.                         *)
C5_FirstTrueBeforeSecondTick ==
    \A p \in DOMAIN polls :
        (/\ polls[p].checks # <<>>
         /\ polls[p].checks[1].result = "true"
         /\ polls[p].checks[1].done
         /\ polls[p].checks[1].settledTick = 1)
            => /\ polls[p].st = "resolved"
               /\ polls[p].val = Str("Finished polling")
               /\ Len(polls[p].checks) = 1

\* interval 0, a first check that resolved true after a delay, time gone by.
C5_Witness ==
    \E p \in DOMAIN polls :
        /\ polls[p].interval = 0
        /\ polls[p].checks # <<>>
        /\ polls[p].checks[1].result = "true"
        /\ ~polls[p].checks[1].immediate
        /\ polls[p].checks[1].done
        /\ polls[p].checks[1].settledTick = 1
        /\ now > polls[p].settledAt + 1

(* C6 as stated: after the tick at which elapsed >= timeout the call has    *)
(* failed with a TimeoutError carrying timeoutMsg.                          *)
C6_FailsWithTimeoutError ==
    \A p \in DOMAIN polls :
        polls[p].expired
            => /\ polls[p].st = "rejected"
               /\ polls[p].val = TimeoutError(polls[p].timeoutMsg)

(* C6 amended: after the tick at which elapsed >= timeout the call has      *)
(* failed, and the rejection value is the configured timeoutMsg string      *)
(* itself, also when a pending check resolves true afterwards.              *)
C6_FailsWithTimeoutMsg ==
    \A p \in DOMAIN polls :
        polls[p].expired
            => /\ polls[p].st = "rejected"
               /\ polls[p].val = Str(polls[p].timeoutMsg)

\* A check that resolved true only after the timeout tick.
C6_Witness ==
    \E p \in DOMAIN polls : \E i \in 1..Len(polls[p].checks) :
        /\ polls[p].expired
        /\ polls[p].checks[i].result = "true"
        /\ polls[p].checks[i].done
        /\ polls[p].timeoutMsg = "Time out"

(* C7 as stated: when the first invocation never settles and the second     *)
(* resolves true within the timeout, pollFor succeeds after exactly two     *)
(* invocations.                                                             *)
C7_SecondTrueTwoInvocations ==
    \A p \in DOMAIN polls :
        (/\ Len(polls[p].checks) >= 2
         /\ polls[p].checks[1].result = "never"
         /\ polls[p].checks[2].result = "true"
         /\ polls[p].checks[2].done
         /\ ~polls[p].expired)
            => polls[p].st = "resolved" /\ Len(polls[p].checks) = 2

(* C7 amended: a first invocation that never settles does not stop polling; *)
(* when the second invocation resolves true before the third tick fires,    *)
(* pollFor has succeeded, the timer is cleared and checkFn was invoked      *)
(* exactly twice.                                                           *)
C7_SecondTrueBeforeThirdTick ==
    \A p \in DOMAIN polls :
        (/\ Len(polls[p].checks) >= 2
         /\ polls[p].checks[1].result = "never"
         /\ polls[p].checks[2].result = "true"
         /\ polls[p].checks[2].done
         /\ polls[p].checks[2].settledTick = 2)
            => /\ polls[p].st = "resolved"
               /\ ~polls[p].timerActive
               /\ Len(polls[p].checks) = 2

\* The test's run: first check pending for good, second true, time gone by.
C7_Witness ==
    \E p \in DOMAIN polls :
        /\ Len(polls[p].checks) = 2
        /\ polls[p].checks[1].result = "never"
        /\ polls[p].checks[2].result = "true"
        /\ ~polls[p].checks[2].immediate
        /\ polls[p].checks[2].done
        /\ polls[p].st = "resolved"
        /\ now > polls[p].settledAt

(* C8: with the timer firing and the clock advancing, every pollFor call    *)
(* is eventually settled, whatever checkFn does.                            *)
C8_EventuallySettled ==
    \A p \in OnePoll : (polls[p].st = "pending") ~> Settled(polls[p])

\* A call that failed by timeout although checks rejected and never settled.
C8_Witness ==
    \E p \in DOMAIN polls :
        /\ polls[p].st = "rejected"
        /\ polls[p].unhandled > 0
        /\ \E i \in 1..Len(polls[p].checks) : polls[p].checks[i].result = "never"

\* The first logged request whose URL contains resource has status 200.
FirstMatchHas200(requests, resource) ==
    FirstMatchHas(requests, resource, {200})

(* C9: a waitForResource call made while the first logged request whose URL *)
(* contains the pattern has status 200 resolves in the call itself; no      *)
(* pollFor is started: no timer is created, no tick and no checkFn          *)
(* invocation ever happens for it.                                          *)
C9_ResolvesWithoutPolling ==
    /\ [][\A p \in DOMAIN polls :
            (/\ polls[p].st = "idle"
             /\ polls'[p].kind = "resource"
             /\ FirstMatchHas200(resourceRequests, polls'[p].resource))
                => /\ polls'[p].st = "resolved"
                   /\ ~polls'[p].timerCreated]_vars
    /\ [](\A p \in DOMAIN polls :
            ~polls[p].timerCreated
                => /\ ~polls[p].timerActive
                   /\ polls[p].ticks = 0
                   /\ polls[p].checks = <<>>)

\* A wait that resolved in the call, the match being the second log entry.
C9_Witness ==
    \E p \in DOMAIN polls :
        /\ polls[p].st = "resolved"
        /\ ~polls[p].timerCreated
        /\ now > polls[p].startTime
        /\ Len(resourceRequests) = 2
        /\ ~Contains(resourceRequests[1].url, polls[p].resource)
        /\ FirstMatchHas200(resourceRequests, polls[p].resource)

(* C10: in the step that resolves a waitForResource call, the Request Log   *)
(* holds a request whose URL contains the pattern and whose response is     *)
(* present with status 200 or 304.                                          *)
C10_ResolvesOnlyOnSuccessfulMatch ==
    [][\A p \in DOMAIN polls :
        (/\ polls[p].st # "resolved"
         /\ polls'[p].st = "resolved"
         /\ polls'[p].kind = "resource")
            => \E i \in 1..Len(resourceRequests) :
                /\ Contains(resourceRequests[i].url, polls'[p].resource)
                /\ resourceRequests[i].response \in {<<200>>, <<304>>}]_vars

\* A wait resolved by a poll tick on a 304, beside a request that failed.
C10_Witness ==
    \E p \in DOMAIN polls :
        /\ polls[p].st = "resolved"
        /\ polls[p].ticks >= 2
        /\ Len(resourceRequests) = 2
        /\ resourceRequests[1].response = <<404>>
        /\ Contains(resourceRequests[2].url, polls[p].resource)
        /\ resourceRequests[2].response = <<304>>

\* A waitForResource call that polled and failed.
TimedOut(pr) == pr.kind = "resource" /\ pr.st = "rejected"

(* C11: a waitForResource call made on an empty Request Log whose awaited   *)
(* request is logged later and gets a 200/304 response while elapsed <      *)
(* timeout, the response staying in the log, does not fail by timeout.      *)
C11_ResolvesWhenRespondedInTime ==
    \A p \in DOMAIN polls :
        (polls[p].emptyAtCall /\ polls[p].metInTime) => ~TimedOut(polls[p])

\* An error object as a caught rejection shows it: its name and e.message.
Error(name, message) == [type |-> name, text |-> message]

C13_RejectsWithEventTimeoutMessage ==
    \A p \in DOMAIN polls :
        (TimedOut(polls[p]) /\ ~polls[p].sawMatch)
            => polls[p].val =
                    Error("Error", "Timeout exceeded while waiting for event")

(* C14: the step that resolves a waitForResource call finds the FIRST       *)
(* logged request whose URL contains the pattern with a 200/304 response;   *)
(* a later matching request with a 200/304 response never resolves it.      *)
C14_FirstMatchDecides ==
    [][\A p \in DOMAIN polls :
        (/\ polls[p].st # "resolved"
         /\ polls'[p].st = "resolved"
         /\ polls'[p].kind = "resource")
            => FirstMatchHas(resourceRequests, polls'[p].resource,
                             {200, 304})]_vars

\* A wait that was checked and failed by timeout: the first request
\* containing the pattern failed, the second has a 200 response.
C14_Witness ==
    \E p \in DOMAIN polls :
        /\ TimedOut(polls[p])
        /\ ~polls[p].resetDuring
        /\ polls[p].checks # <<>>
        /\ Len(resourceRequests) = 2
        /\ Contains(resourceRequests[1].url, polls[p].resource)
        /\ resourceRequests[1].response = <<404>>
        /\ Contains(resourceRequests[2].url, polls[p].resource)
        /\ resourceRequests[2].response = <<200>>

Issued(requests) ==
    [i \in 1..Len(requests) |->
        [url |-> requests[i].url, resourceType |-> requests[i].resourceType,
         doc |-> requests[i].doc]]

\* The state of a call without its history fields.
Program(pr) ==
    [pr EXCEPT !.emptyAtCall = FALSE, !.docAtCall = 0, !.clearedBefore = {},
               !.sawMatch = FALSE, !.resetDuring = FALSE, !.metInTime = FALSE,
               !.resetsInRow = 0, !.steady = FALSE, !.matchedAtTick = FALSE,
               !.timeoutArg = <<>>, !.op = ""]

(* C16: every step leaves the requests of the Request Log as they are,      *)
(* appends one new request without a response at the end, or empties the    *)
(* log; a step in which a wait is called, ticks or settles, or the clock    *)
(* moves, leaves the log unchanged.                                         *)
C16_LogOnlyAppendedOrCleared ==
    [][/\ \/ Issued(resourceRequests') = Issued(resourceRequests)
          \/ \E u \in Urls :
                resourceRequests' =
                    Append(resourceRequests,
                           [url |-> u, resourceType |-> "document",
                            response |-> <<>>, doc |-> page.doc,
                            page |-> 1])
          \/ resourceRequests' = <<>>
       /\ (now' # now \/ \E p \in DOMAIN polls :
                            Program(polls'[p]) # Program(polls[p]))
            => resourceRequests' = resourceRequests]_vars

\* After a reset during a wait that went on polling, the log holds two
\* requests with different URLs.
C16_Witness ==
    \E p \in DOMAIN polls :
        /\ polls[p].resetDuring
        /\ polls[p].ticks >= 2
        /\ Len(resourceRequests) = 2
        /\ resourceRequests[1].url # resourceRequests[2].url

(* C17: a reset leaves the log empty, and a waitForResource call made       *)
(* right after a reset, with a pattern whose first match in the cleared     *)
(* log was successful and with no matching request logged since, does not   *)
(* resolve.                                                                 *)
C17_ClearedRequestsDoNotCount ==
    /\ [][resetResourceRequests => resourceRequests' = <<>>]_vars
    /\ [](\A p \in DOMAIN polls :
            (/\ polls[p].kind = "resource"
             /\ polls[p].clearedBefore # {}
             /\ ~polls[p].sawMatch)
                => polls[p].st # "resolved")

\* Such a call that was checked and failed by timeout.
C17_Witness ==
    \E p \in DOMAIN polls :
        /\ TimedOut(polls[p])
        /\ polls[p].clearedBefore = {polls[p].resource}
        /\ ~polls[p].sawMatch
        /\ polls[p].checks # <<>>

(* C18: a reset leaves a log that a further reset leaves as it is, the      *)
(* empty log, and changes nothing else: not the clock, not the page and no  *)
(* wait.                                                                    *)
C18_ResetIdempotent ==
    [][resetResourceRequests =>
        /\ resourceRequests' = <<>>
        /\ ClearedRequests(resourceRequests') = resourceRequests'
        /\ now' = now
        /\ page' = page
        /\ \A p \in DOMAIN polls : Program(polls'[p]) = Program(polls[p])]_vars

\* Two resets in a row during a pending wait.
C18_Witness ==
    \E p \in DOMAIN polls :
        /\ polls[p].st = "pending"
        /\ polls[p].sawMatch
        /\ polls[p].resetsInRow = 2
        /\ resourceRequests = <<>>

StaleMatch(requests, resource, doc) ==
    \E i \in 1..Len(requests) :
        /\ Contains(requests[i].url, resource)
        /\ requests[i].response \in {<<200>>, <<304>>}
        /\ requests[i].doc < doc
        /\ \A j \in 1..i - 1 : ~Contains(requests[j].url, resource)

(* C20: a step in which the page navigates leaves the Request Log           *)
(* unchanged, and a waitForResource call whose first match in the log is a  *)
(* successful request of an earlier document resolves in the call itself,   *)
(* without polling.                                                         *)
C20_NavigationKeepsLog ==
    /\ [][page'.doc # page.doc => resourceRequests' = resourceRequests]_vars
    /\ [][\A p \in DOMAIN polls :
            (/\ polls[p].st = "idle"
             /\ polls'[p].kind = "resource"
             /\ StaleMatch(resourceRequests, polls'[p].resource, page.doc))
                => /\ polls'[p].st = "resolved"
                   /\ ~polls'[p].timerCreated]_vars

\* A wait called after a navigation that resolved in the call on a request
\* of the previous document, no request having been logged since.
C20_Witness ==
    \E p \in DOMAIN polls :
        /\ polls[p].st = "resolved"
        /\ ~polls[p].timerCreated
        /\ polls[p].docAtCall = 1
        /\ page.doc = 1
        /\ resourceRequests # <<>>
        /\ \A i \in 1..Len(resourceRequests) : resourceRequests[i].doc = 0
        /\ StaleMatch(resourceRequests, polls[p].resource, 1)

(* C21: two Extensions instances on two pages have separate Request Logs:   *)
(* a step that changes the log of one (a request of its page, a response,   *)
(* its reset) leaves the log of the other unchanged.                        *)
C21_InstancesOwnTheirLogs ==
    [][/\ resourceRequests' # resourceRequests
            => facade'.peerRequests = facade.peerRequests
       /\ facade'.peerRequests # facade.peerRequests
            => resourceRequests' = resourceRequests]_vars

\* The first instance was reset and holds nothing; the second holds two
\* requests, one answered.
C21_Witness ==
    /\ resourceRequests = <<>>
    /\ \E p \in DOMAIN polls : polls[p].resetsInRow = 1
    /\ Len(facade.peerRequests) = 2
    /\ facade.peerRequests[1].response = <<200>>

(* C22: in the factory API, a waitForResource call made right after         *)
(* resetRequests(), with a pattern whose first match in the cleared log     *)
(* was successful and with no matching request emitted since, does not      *)
(* resolve: requests logged before the reset are not visible to it.         *)
C22_ApiResetHidesOldRequests ==
    \A p \in DOMAIN polls :
        (/\ polls[p].kind = "apiResource"
         /\ polls[p].clearedBefore # {}
         /\ ~polls[p].sawMatch)
            => polls[p].st # "resolved"

(* C23: a waitForLoadedWebFontCountToBe call of an Extensions instance      *)
(* made while the log holds exactly count = 2 successful font requests and  *)
(* document.fonts.ready has resolved, the log staying as it is, resolves    *)
(* once two checks have run (one installs the probe, the next reads it).    *)
C23_FontWaitResolves ==
    \A p \in DOMAIN polls :
        (/\ polls[p].kind = "font"
         /\ polls[p].count = 2
         /\ polls[p].steady
         /\ Len(polls[p].checks) >= 2
         /\ InFlight(polls[p]) = {})
            => polls[p].st = "resolved"

(* C24: a font wait none of whose ticks found exactly count successful      *)
(* font requests in the log fails by timeout with a TimeoutError whose      *)
(* message includes the expected count, and never resolves.                 *)
C24_FontTimeoutError ==
    \A p \in DOMAIN polls :
        (polls[p].kind = "font" /\ ~polls[p].matchedAtTick)
            => /\ polls[p].st # "resolved"
               /\ polls[p].st = "rejected"
                    => polls[p].val =
                        TimeoutError(FontTimeoutMsg(polls[p].count))

(* C24 (amended): such a wait never resolves, and when it fails the         *)
(* rejection value is the bare string `Timeout waiting for <count> web      *)
(* font responses`, not an error object.                                    *)
C24_FontTimeoutMsg ==
    \A p \in DOMAIN polls :
        (polls[p].kind = "font" /\ ~polls[p].matchedAtTick)
            => /\ polls[p].st # "resolved"
               /\ polls[p].st = "rejected"
                    => polls[p].val = Str(FontTimeoutMsg(polls[p].count))

\* A wait for 2 fonts that was checked twice and failed: the log holds one
\* successful font request and one that failed.
C24_Witness ==
    \E p \in DOMAIN polls :
        /\ polls[p].kind = "font"
        /\ polls[p].st = "rejected"
        /\ polls[p].count = 2
        /\ polls[p].val = Str("Timeout waiting for 2 web font responses")
        /\ ~polls[p].matchedAtTick
        /\ Len(polls[p].checks) = 2
        /\ Len(resourceRequests) = 2
        /\ SuccessfulFonts(resourceRequests) = 1

(* C25: the step that resolves a font wait completes a check that found     *)
(* exactly count successful font requests in the log when it was invoked,   *)
(* and the page's flag window.__webFontsAllLoaded is true at that step.     *)
C25_ResolvesOnCountAndFlag ==
    [][\A p \in DOMAIN polls :
        (/\ polls[p].kind = "apiFont"
         /\ polls[p].st # "resolved"
         /\ polls'[p].st = "resolved")
            => /\ page.webFontsAllLoaded
               /\ \E i \in InFlight(polls[p]) :
                    /\ polls'[p].checks[i].done
                    /\ polls[p].checks[i].seen = polls[p].count]_vars

\* A wait for 2 fonts resolved by its second check.
C25_Witness ==
    \E p \in DOMAIN polls :
        /\ polls[p].kind = "apiFont"
        /\ polls[p].st = "resolved"
        /\ polls[p].count = 2
        /\ Len(polls[p].checks) = 2
        /\ page.webFontsAllLoaded

(* C26: one font wait starts installing the probe in the page at most once. *)
C26_ProbeInstalledOnce ==
    \A p \in DOMAIN polls : polls[p].installs <= 1

(* C27: of two waits on one facade every step changes at most one: the      *)
(* call, a tick, the success or the timeout of one wait leaves the other    *)
(* wait's timer, checks and outcome as they are.                            *)
C27_WaitsAreIndependent ==
    [][\A p, q \in DOMAIN polls :
        (p # q /\ Program(polls'[p]) # Program(polls[p]))
            => Program(polls'[q]) = Program(polls[q])]_vars

\* The first wait succeeded by a tick; the second went on ticking and
\* failed by timeout later.
C27_Witness ==
    /\ DOMAIN polls = TwoPolls
    /\ polls[1].st = "resolved"
    /\ polls[1].timerCreated
    /\ polls[2].st = "rejected"
    /\ polls[2].settledAt > polls[1].settledAt
    /\ polls[2].resource # polls[1].resource

(* C28: getPropertyValue(selector, property) with a selector that matches   *)
(* no element fails with an Error whose message names the property and the  *)
(* selector.                                                                *)
C28_GetPropertyValueError ==
    \A p \in DOMAIN polls :
        (/\ polls[p].kind = "getPropertyValue"
         /\ polls[p].args[1] \notin PresentSelectors)
            => /\ polls[p].st = "rejected"
               /\ polls[p].val =
                    Error("Error", "Unable able to get " \o polls[p].args[2]
                                    \o " from " \o polls[p].args[1] \o ".")

(* C30: every call a delegating wait makes on the page hands it the         *)
(* facade's default timeout as the timeout option.                          *)
C30_DelegatesPassDefaultTimeout ==
    \A i \in 1..Len(page.calls) :
        page.calls[i].timeout = <<facade.defaultTimeout>>

(* C29: a facade made by init(page) without a timeout argument has default  *)
(* timeout 5000 ms; waitForResource and waitForLoadedWebFontCountToBe       *)
(* called without a timeout argument poll with the facade's default         *)
(* timeout, and called with one poll with the argument, which leaves the    *)
(* facade's default as it was.                                              *)
C29_DefaultTimeout ==
    /\ [](facade.initArg = <<>> => facade.defaultTimeout = 5000)
    /\ [][\A p \in DOMAIN polls :
            (polls[p].st = "idle" /\ polls'[p].kind \in {"resource", "font"})
                => /\ polls'[p].timeout =
                        IF polls'[p].timeoutArg = <<>>
                        THEN facade.defaultTimeout
                        ELSE polls'[p].timeoutArg[1]
                   /\ facade' = facade]_vars
    /\ [](\A p \in DOMAIN polls :
            (polls[p].kind \in {"resource", "font"}
                /\ polls[p].val = Str(polls[p].timeoutMsg))
                => Elapsed(polls[p], polls[p].settledAt) >= polls[p].timeout)

\* On a facade made without a timeout argument, a call given 250 ms has
\* timed out and a later call given none has timed out after 5000 ms.
C29_Witness ==
    /\ facade.initArg = <<>>
    /\ polls[1].timeoutArg # <<>> /\ polls[1].st = "rejected"
    /\ polls[1].val = Str(polls[1].timeoutMsg)
    /\ polls[1].settledAt < 5000
    /\ polls[2].timeoutArg = <<>> /\ polls[2].st = "rejected"
    /\ polls[2].val = Str(polls[2].timeoutMsg)
    /\ polls[2].settledAt >= 5000
    /\ polls[1].kind = "font" /\ polls[2].kind = "resource"

\* The first element with the tag in document order, <<>> when none has it.
FirstMatch(elements, tag) ==
    IF \E i \in DOMAIN elements : elements[i].tag = tag
    THEN <<elements[CHOOSE i \in DOMAIN elements :
                /\ elements[i].tag = tag
                /\ \A j \in 1..i - 1 : elements[j].tag # tag]>>
    ELSE <<>>

(* C31: waitForSelectorAttribute(selector, a) makes the wait that           *)
(* waitForNthSelectorAttribute(selector, 1, a) makes, and                   *)
(* waitForSelectorAttributeValue(selector, a, v) the wait that              *)
(* waitForNthSelectorAttributeValue(selector, 1, a, v) makes; nth counts    *)
(* the matches of the selector in document order from 1: such a wait        *)
(* resolves only while the first match has the attribute (with the value),  *)
(* and fails at once only while nothing matches.                            *)
C31_SelectorAttributeIsNthOne ==
    [][\A p \in DOMAIN polls :
        /\ (polls[p].st = "idle" /\ polls'[p].op = "waitForSelectorAttribute")
            => \E s \in Tags, a \in AttributeNames :
                  Program(polls'[p]) =
                    Program(waitForNthSelectorAttribute(polls[p], s, 1, a,
                                facade.defaultTimeout, now))
        /\ (polls[p].st = "idle" /\ polls'[p].op = "waitForSelectorAttributeValue")
            => \E s \in Tags, a \in AttributeNames, v \in AttributeValues :
                  Program(polls'[p]) =
                    Program(waitForNthSelectorAttributeValue(polls[p], s, 1, a, v,
                                facade.defaultTimeout, now))
        /\ (/\ polls[p].st = "pending"
            /\ polls[p].op \in {"waitForSelectorAttribute",
                                "waitForSelectorAttributeValue"}
            /\ polls'[p].st # "pending")
            => LET first == FirstMatch(page.elements, polls[p].args[2])
                   name == polls[p].args[4]
               IN  IF polls'[p].st = "rejected" THEN first = <<>>
                   ELSE /\ first # <<>>
                        /\ first[1].attributes[name] # Undefined
                        /\ polls[p].op = "waitForSelectorAttributeValue"
                            => first[1].attributes[name] = polls[p].args[5]]_vars

\* waitForSelectorAttributeValue resolved on a document with two matches
\* that both carry the value.
C31_Witness ==
    /\ polls[1].op = "waitForSelectorAttributeValue"
    /\ polls[1].st = "resolved"
    /\ Len(querySelectorAll(page.elements, polls[1].args[2])) = 2
    /\ \A i \in 1..2 : page.elements[i].attributes["data-id"] = polls[1].args[5]

RECURSIVE Sum(_)
Sum(s) == IF s = <<>> THEN 0 ELSE s[1] + Sum(Tail(s))

(* C32: after fastForwardTime(a) and then fastForwardTime(b) on a page, a   *)
(* clock the page constructs can be read and reads the real time + a + b.   *)
C32_FastForwardCompounds ==
    [][(Len(page.clock.classes) = 2 /\ page'.clock.read # page.clock.read)
        => page'.clock.read =
            [type |-> "number", time |-> now + Sum(page.clock.classes)]]_vars

(* C33: pollFor does not invoke checkFn when it is called; checkFn is       *)
(* invoked only in a tick, no earlier than interval after the call and only *)
(* while elapsed < timeout. With timeout <= interval checkFn is never       *)
(* invoked and the first tick fails the call with timeoutMsg.               *)
C33_NoCheckBeforeFirstTick ==
    /\ [][\A p \in DOMAIN polls :
            /\ polls[p].st = "idle" => polls'[p].checks = <<>>
            /\ Len(polls'[p].checks) > Len(polls[p].checks)
                => /\ polls'[p].ticks = polls[p].ticks + 1
                   /\ Elapsed(polls[p], now) >= polls[p].interval
                   /\ Elapsed(polls[p], now) < polls[p].timeout]_vars
    /\ [](\A p \in DOMAIN polls :
            (polls[p].timerCreated /\ polls[p].timeout <= polls[p].interval)
                => /\ polls[p].checks = <<>>
                   /\ polls[p].ticks <= 1
                   /\ polls[p].ticks = 1
                        => /\ polls[p].st = "rejected"
                           /\ polls[p].val = Str(polls[p].timeoutMsg))

\* A call with timeout = interval > 0 failed at its first tick without a
\* check.
C33_Witness ==
    \E p \in DOMAIN polls :
        /\ polls[p].interval > 0
        /\ polls[p].timeout = polls[p].interval
        /\ polls[p].st = "rejected"
        /\ polls[p].ticks = 1
        /\ polls[p].checks = <<>>

\* ceil(a / b) for b > 0.
Ceil(a, b) == (a + b - 1) \div b

\* Every tick of the call so far fired exactly when it was due.
ExactTicks(pr) ==
    /\ pr.timerCreated
    /\ pr.interval > 0
    /\ pr.nextFire = pr.startTime + (pr.ticks + 1) * pr.interval

(* C34 as stated: with ticks firing exactly every interval > 0 ms, one      *)
(* pollFor call makes at most ceil(timeout / interval) - 1 checkFn          *)
(* invocations.                                                             *)
C34_AtMostCeilMinusOne ==
    \A p \in DOMAIN polls :
        ExactTicks(polls[p])
            => Len(polls[p].checks) <= Ceil(polls[p].timeout, polls[p].interval) - 1

(* C34 amended: with ticks firing exactly every interval > 0 ms, one        *)
(* pollFor call makes at most ceil(timeout / interval) - 1 checkFn          *)
(* invocations when timeout > 0, and none when timeout = 0.                 *)
C34_AtMostCeilMinusOneOrNone ==
    \A p \in DOMAIN polls :
        ExactTicks(polls[p])
            => Len(polls[p].checks) <=
                IF polls[p].timeout = 0 THEN 0
                ELSE Ceil(polls[p].timeout, polls[p].interval) - 1

\* A call on exact ticks that made ceil(timeout / interval) - 1 >= 2 checks
\* and then failed by timeout.
C34_Witness ==
    \E p \in DOMAIN polls :
        /\ ExactTicks(polls[p])
        /\ polls[p].st = "rejected"
        /\ Len(polls[p].checks) = Ceil(polls[p].timeout, polls[p].interval) - 1
        /\ Len(polls[p].checks) >= 2

(* C35: a pollFor call has one final outcome: once its promise is rejected  *)
(* or resolved, no tick and no check that settles later changes the         *)
(* outcome or its value.                                                    *)
C35_OneFinalOutcome ==
    [][\A p \in DOMAIN polls :
        Settled(polls[p])
            => /\ polls'[p].st = polls[p].st
               /\ polls'[p].val = polls[p].val
               /\ polls'[p].settledAt = polls[p].settledAt]_vars

\* A call rejected by timeout one of whose checks resolved true afterwards.
C35_Witness ==
    \E p \in DOMAIN polls :
        /\ polls[p].st = "rejected"
        /\ polls[p].expired
        /\ \E i \in 1..Len(polls[p].checks) :
                /\ polls[p].checks[i].done
                /\ polls[p].checks[i].result = "true"

(* C36 as stated: with ticks firing exactly every 100 ms, a waitForResource *)
(* call that fails by timeout fails no earlier than timeout and strictly    *)
(* less than timeout + 100 ms after the call.                               *)
C36_TimeoutWithinOneInterval ==
    \A p \in DOMAIN polls :
        (TimedOut(polls[p]) /\ ExactTicks(polls[p]))
            => /\ Elapsed(polls[p], polls[p].settledAt) >= polls[p].timeout
               /\ Elapsed(polls[p], polls[p].settledAt)
                    < polls[p].timeout + PollInterval

(* C36 amended: with ticks firing exactly every 100 ms, a waitForResource   *)
(* call that fails by timeout fails at the first tick whose elapsed time is *)
(* >= timeout: for timeout > 0 no earlier than timeout and strictly less    *)
(* than timeout + 100 ms after the call, for timeout = 0 exactly 100 ms     *)
(* after the call.                                                          *)
C36_TimeoutAtFirstTickPastTimeout ==
    \A p \in DOMAIN polls :
        (TimedOut(polls[p]) /\ ExactTicks(polls[p]))
            => LET elapsed == Elapsed(polls[p], polls[p].settledAt)
               IN  /\ elapsed = polls[p].ticks * PollInterval
                   /\ elapsed >= polls[p].timeout
                   /\ (polls[p].ticks - 1) * PollInterval < polls[p].timeout
                        \/ polls[p].ticks = 1
                   /\ polls[p].timeout > 0
                        => elapsed < polls[p].timeout + PollInterval
                   /\ polls[p].timeout = 0 => elapsed = PollInterval

\* waitForResource(pattern, 150) on exact ticks failed 200 ms after the
\* call, at its second tick.
C36_Witness ==
    \E p \in DOMAIN polls :
        /\ TimedOut(polls[p]) /\ ExactTicks(polls[p])
        /\ polls[p].timeout = PollInterval + HalfInterval
        /\ Elapsed(polls[p], polls[p].settledAt) = 2 * PollInterval
        /\ Len(polls[p].checks) = 1

(* C37: in the factory API a waitForResource call whose pattern matches no  *)
(* logged request polls: it fails only in a tick and only with              *)
(* "Timeout waiting for resource match.", never at the call with another    *)
(* error.                                                                   *)
C37_ApiNoMatchOnlyTimesOut ==
    \A p \in DOMAIN polls :
        (polls[p].kind = "apiResource" /\ polls[p].st = "rejected")
            => /\ polls[p].val = Str(ResourceTimeoutMsg)
               /\ polls[p].ticks >= 1
               /\ polls[p].timerCreated

(* C38: two facades made by two init() calls of the factory API on          *)
(* different pages have independent request logs: a wait of the first       *)
(* facade never sees a request of the second page, so one that resolved     *)
(* matched a request of its own page.                                       *)
C38_ApiFacadesOwnTheirLogs ==
    /\ \A i \in 1..Len(api.requests) : api.requests[i].page = 1
    /\ \A p \in DOMAIN polls :
        (polls[p].kind = "apiResource" /\ polls[p].st = "resolved")
            => \E i \in 1..Len(api.requests) :
                /\ api.requests[i].page = 1
                /\ Contains(api.requests[i].url, polls[p].resource)

\* The checks of the call that observed the expected number of successful
\* font requests.
Matching(pr) == {i \in 1..Len(pr.checks) : pr.checks[i].seen = pr.count}

(* C39: waitForLoadedWebFontCountToBe does not resolve on the first check   *)
(* that observes the expected font count: that check installs the probe and *)
(* returns false. A call that resolved made at least two checks that        *)
(* observed the expected count, an installing one and a later one that read *)
(* the flag, and its timeout is above 200 ms.                               *)
C39_FontWaitNeedsTwoMatchingChecks ==
    \A p \in DOMAIN polls :
        polls[p].kind = "apiFont"
            => /\ \A i \in Matching(polls[p]) :
                    (\A j \in Matching(polls[p]) : i <= j)
                        => /\ polls[p].checks[i].op = "install"
                           /\ polls[p].checks[i].result # "true"
               /\ polls[p].st = "resolved"
                    => /\ \E i, j \in Matching(polls[p]) :
                            /\ i < j
                            /\ polls[p].checks[i].op = "install"
                            /\ polls[p].checks[j].op = "read"
                            /\ polls[p].checks[j].result = "true"
                       /\ polls[p].timeout > 2 * PollInterval

\* A font wait for one font that resolved by its second check.
C39_Witness ==
    \E p \in DOMAIN polls :
        /\ polls[p].kind = "apiFont"
        /\ polls[p].st = "resolved"
        /\ polls[p].count = 1
        /\ Len(polls[p].checks) = 2

====
